---- MODULE Spec2Model ----
(***************************************************************************)
(* Model of the time-keeping subsystem of the ESP8266 WiFi clock:          *)
(* updateTimeAndDate (NTP synchronisation), updateCurrentTime (the         *)
(* free-running tick), resetTimeWithNewTimezone, and the callers in        *)
(* setup(), loop() and handleSettingsSave().                               *)
(*                                                                         *)
(* unsigned long values (millis() and the marks derived from it) are 32    *)
(* bits wide on the target.  They are kept as pairs <<hi, lo>> of 16-bit   *)
(* halves, value hi * 65536 + lo, so that every operation wraps exactly as *)
(* the hardware does.  long values are 32-bit signed and are plain         *)
(* integers.  float is IEEE binary32 and is modelled by its sign, 24-bit   *)
(* mantissa and exponent with round-to-nearest-even.                       *)
(***************************************************************************)
EXTENDS Integers, Sequences, FiniteSets, TLC

-----------------------------------------------------------------------------
(* 32-bit unsigned arithmetic *)

Half == 65536

UINT_MAX == <<65535, 65535>>

U32Zero == <<0, 0>>

\* the unsigned long holding a non-negative integer below 2^31
ToU32(n) == <<n \div Half, n % Half>>

U32Lt(a, b) == a[1] < b[1] \/ (a[1] = b[1] /\ a[2] < b[2])

U32Add(a, b) ==
  LET lo == a[2] + b[2]
      hi == a[1] + b[1] + (lo \div Half)
  IN  <<hi % Half, lo % Half>>

U32Sub(a, b) ==
  LET lo == a[2] - b[2]
      br == IF lo < 0 THEN 1 ELSE 0
      hi == a[1] - b[1] - br
  IN  <<hi % Half, lo % Half>>

\* conversion unsigned long -> long (two's complement reinterpretation)
ToLong(a) ==
  IF a[1] >= 32768 THEN (a[1] - Half) * Half + a[2] ELSE a[1] * Half + a[2]

\* conversion long -> unsigned long
FromLong(n) ==
  IF n >= 0 THEN ToU32(n)
  ELSE LET m == n + 1                      \* m in -(2^31 - 1) .. 0
           p == -m                         \* 2^32 + n = UINT_MAX - p
       IN  U32Sub(UINT_MAX, ToU32(p))

\* quotient (an integer) and remainder of an unsigned long by d, 0 < d <= 32768
U32Div(a, d) ==
  LET q1 == a[1] \div d
      r1 == a[1] % d
      t  == r1 * Half + a[2]
  IN  q1 * Half + (t \div d)

U32Mod(a, d) ==
  LET r1 == a[1] % d
      t  == r1 * Half + a[2]
  IN  t % d

\* C integer division truncates toward zero
TruncDiv(n, d) == IF n >= 0 THEN n \div d ELSE -((-n) \div d)

TruncMod(n, d) == n - d * TruncDiv(n, d)

-----------------------------------------------------------------------------
(* IEEE binary32 arithmetic, round to nearest, ties to even.               *)
(* A float is [s |-> sign, m |-> mantissa, e |-> exponent], value          *)
(* s * m * 2^e with 2^23 <= m < 2^24, or m = 0 for zero.                   *)

Two23 == 8388608

Two24 == 16777216

F32Zero == [s |-> 1, m |-> 0, e |-> 0]

\* the float nearest to (m + r/d) * 2^e, for integers m >= 0, 0 <= r < d,
\* not both zero
RECURSIVE FBuild(_, _, _, _)
FBuild(m, r, d, e) ==
  IF m >= Two24 THEN FBuild(m \div 2, (m % 2) * d + r, 2 * d, e + 1)
  ELSE IF m < Two23 THEN
    LET bit == IF 2 * r >= d THEN 1 ELSE 0
    IN  FBuild(2 * m + bit, 2 * r - bit * d, d, e - 1)
  ELSE
    LET up == (2 * r > d) \/ (2 * r = d /\ m % 2 = 1)
        m1 == IF up THEN m + 1 ELSE m
    IN  IF m1 = Two24 THEN [s |-> 1, m |-> Two23, e |-> e + 1]
        ELSE [s |-> 1, m |-> m1, e |-> e]

\* (float) n for a long n
IntToF32(n) ==
  IF n = 0 THEN F32Zero
  ELSE IF n = -2147483647 - 1 THEN [s |-> -1, m |-> Two23, e |-> 8]
  ELSE IF n < 0 THEN [FBuild(-n, 0, 1, 0) EXCEPT !.s = -1]
  ELSE FBuild(n, 0, 1, 0)

\* (float) (a / (d * 2^sh)) for an unsigned long a and 0 < d <= 32768; the
\* intermediate double of the source carries 53 bits and does not change
\* the rounding of these quotients
RatToF32(a, d, sh) ==
  IF a = U32Zero THEN F32Zero
  ELSE FBuild(U32Div(a, d), U32Mod(a, d), d, -sh)

F32Mul(x, y) ==
  IF x.m = 0 \/ y.m = 0 THEN F32Zero
  ELSE
    LET a1  == x.m \div 4096
        b1  == x.m % 4096
        a2  == y.m \div 4096
        b2  == y.m % 4096
        mid == a1 * b2 + a2 * b1
        t   == b1 * b2 + (mid % 4096) * 4096
        lo  == t % Two24
        hi  == a1 * a2 + (mid \div 4096) + (t \div Two24)
    IN  [FBuild(hi, lo, Two24, x.e + y.e + 24) EXCEPT !.s = x.s * y.s]

F32Div(x, y) ==
  IF x.m = 0 THEN F32Zero
  ELSE [FBuild(x.m \div y.m, x.m % y.m, y.m, x.e - y.e) EXCEPT !.s = x.s * y.s]

\* (long) x: truncation toward zero, saturating outside the range of long
F32ToLong(x) ==
  IF x.m = 0 THEN 0
  ELSE IF x.e >= 8 THEN (IF x.s = 1 THEN 2147483647 ELSE -2147483647 - 1)
  ELSE IF x.e >= 0 THEN x.s * x.m * (2 ^ x.e)
  ELSE IF x.e <= -24 THEN 0
  ELSE x.s * (x.m \div (2 ^ (-x.e)))

\* the value of the float nearest to the integer n, |n| < 2^31 - 64
RoundF32(n) == F32ToLong(IntToF32(n))

-----------------------------------------------------------------------------
(* Calendar: gmtime() of a non-negative count of seconds since 1970-01-01  *)

SecondsPerDay == 86400

Gmtime(t) ==
  LET days == t \div SecondsPerDay
      rem  == t % SecondsPerDay
      z    == days + 719468
      era  == z \div 146097
      doe  == z - era * 146097
      yoe  == (doe - (doe \div 1460) + (doe \div 36524) - (doe \div 146096)) \div 365
      doy  == doe - (365 * yoe + (yoe \div 4) - (yoe \div 100))
      mp   == (5 * doy + 2) \div 153
      d    == doy - ((153 * mp + 2) \div 5) + 1
      mo   == IF mp < 10 THEN mp + 3 ELSE mp - 9
      y    == yoe + era * 400 + (IF mo <= 2 THEN 1 ELSE 0)
  IN  [tm_hour |-> rem \div 3600,
       tm_min  |-> (rem % 3600) \div 60,
       tm_sec  |-> rem % 60,
       tm_mday |-> d,
       tm_mon  |-> mo - 1,
       tm_year |-> y - 1900,
       tm_wday |-> (days + 4) % 7]

\* a rule whose summer starts after April
shouldApplyDSTFromMay(timeinfo) ==
  LET mon == timeinfo.tm_mon + 1
      day == timeinfo.tm_mday
      weekday == timeinfo.tm_wday
      secondSunday == 8 + (7 - ((weekday + 8 - 1) % 7))
      firstSunday  == 1 + (7 - ((weekday + 1 - 1) % 7))
  IN  IF mon > 4 /\ mon < 11 THEN TRUE
      ELSE IF mon = 3 THEN day >= secondSunday
      ELSE IF mon = 11 THEN day < firstSunday
      ELSE FALSE

\* US daylight-saving rule evaluated on the fields of one struct tm
shouldApplyDST(timeinfo) ==
  LET mon == timeinfo.tm_mon + 1
      day == timeinfo.tm_mday
      weekday == timeinfo.tm_wday
      secondSunday == 8 + (7 - ((weekday + 8 - 1) % 7))
      firstSunday  == 1 + (7 - ((weekday + 1 - 1) % 7))
  IN  IF mon > 3 /\ mon < 11 THEN TRUE
      ELSE IF mon = 3 THEN day >= secondSunday
      ELSE IF mon = 11 THEN day < firstSunday
      ELSE FALSE

-----------------------------------------------------------------------------
(* Program constants *)

\* the tick advances the clock once this many corrected milliseconds are due
MsPerSecond == 1000

\* currentSecond < 58: precise synchronisation is attempted
PreciseSyncLimit == 58

\* drift is only estimated when more than this many seconds separate two syncs
MinDriftSeconds == 300

\* loop(): period of the NTP update, 10 * 60 * 1000
NtpInterval == 600000

\* loop(): period of the WiFi check
WifiCheckInterval == 30000

\* the poll of the alignment loop, delay(10)
PollMs == 10

\* bool useDST = true: no statement of the program assigns it or reads it
useDST == TRUE

-----------------------------------------------------------------------------
(* Bounds of the model *)

\* number of operations (setup, loop iterations, settings saves) in a run
MaxSteps == 4

\* longest streak of failed synchronisations that is counted
MaxFails == 3

\* the days, counted from 1970-01-01, on which the daylight-saving rule is
\* evaluated on its own: 2020-01-01 to 2029-12-31, ten years in which March 1
\* and November 1 fall on every day of the week
FirstDay == 18262

LastDay == 21914

\* the drift rates, in ms per hour, fed to the blend on its own: the
\* estimates and the samples range over -MaxRate .. MaxRate
MaxRate == 8

\* the samples fed to the blend in a run
MaxSyncs == 4

\* the samples after which a blend of constant samples has settled
SettleSyncs == 3

\* polls of the alignment loop that are followed when the second the time
\* source reports does not change
MaxPolls == 120

\* the operations of a run in which WiFi and the time source may fail; from
\* then on the loop runs connected and every attempt is answered
TroubleSteps == 2

-----------------------------------------------------------------------------
(* State.  The globals of config.cpp keep their names.  timezone is the    *)
(* float of the source times four (quarter hours), which is exact for      *)
(* every real zone.  dayOfWeek is the number behind dayOfWeekStr.          *)

VARIABLES
  hours, minutes, seconds, dayOfMonth, month, year, dayOfWeek, currentHour,
  timeInitialized, lastTimeUpdate, lastSecondUpdate, timezone,
  driftCorrection, lastNtpTimestamp, lastNtpMillis,
  loopLastTimeUpdate,   \* static unsigned long lastTimeUpdate of loop()
  lastWifiCheck,        \* static unsigned long lastWifiCheck of loop()
  initialSetupDone,     \* static bool initialSetupDone of loop()
  pc,                   \* "boot" before setup() has run, "loop" after
  now,                  \* millis()
  utc, phase,           \* true UTC time: whole seconds and milliseconds
  ntpEpoc, ntpLast,     \* NTPClient: epoch of the last packet, millis() then
  wifi,                 \* WiFi.status() == WL_CONNECTED
  steps,                \* operations performed so far
  tr,                   \* record of what the last operation did
  hist,                 \* history since the mark lastSecondUpdate denotes
  probe                 \* the last evaluation of a pure function on its own

progVars == <<hours, minutes, seconds, dayOfMonth, month, year, dayOfWeek,
              currentHour, timeInitialized, lastTimeUpdate, lastSecondUpdate,
              timezone, driftCorrection, lastNtpTimestamp, lastNtpMillis,
              loopLastTimeUpdate, lastWifiCheck, initialSetupDone, pc>>

envVars == <<now, utc, phase, ntpEpoc, ntpLast, wifi>>

vars == <<progVars, envVars, steps, tr, hist, probe>>

\* the machine: the globals the clock engine works on, and its environment
Machine ==
  [hours |-> hours, minutes |-> minutes, seconds |-> seconds,
   dayOfMonth |-> dayOfMonth, month |-> month, year |-> year,
   dayOfWeek |-> dayOfWeek, currentHour |-> currentHour,
   timeInitialized |-> timeInitialized, lastTimeUpdate |-> lastTimeUpdate,
   lastSecondUpdate |-> lastSecondUpdate, timezone |-> timezone,
   driftCorrection |-> driftCorrection,
   lastNtpTimestamp |-> lastNtpTimestamp, lastNtpMillis |-> lastNtpMillis,
   now |-> now, utc |-> utc, phase |-> phase,
   ntpEpoc |-> ntpEpoc, ntpLast |-> ntpLast]

\* the WallClock of the specification, as held by a machine
WallClock(M) ==
  [hour |-> M.hours, minute |-> M.minutes, second |-> M.seconds,
   dayOfMonth |-> M.dayOfMonth, month |-> M.month, year |-> M.year,
   weekday |-> M.dayOfWeek, initialized |-> M.timeInitialized,
   lastTickMark |-> M.lastSecondUpdate,
   lastSyncMonotonic |-> M.lastNtpMillis,
   lastSyncEpoch |-> M.lastNtpTimestamp,
   driftCorrectionMsPerHour |-> M.driftCorrection]

\* d milliseconds go by (d an unsigned long): millis() and true time advance
Pass(M, d) ==
  LET p == M.phase + U32Mod(d, 1000)
  IN  [M EXCEPT !.now   = U32Add(M.now, d),
                !.phase = p % 1000,
                !.utc   = M.utc + U32Div(d, 1000) + (p \div 1000)]

-----------------------------------------------------------------------------
(* The NTP client (library code): it keeps the epoch of the last packet    *)
(* and the millis() of its arrival, and extrapolates from them.            *)

\* timeClient.getEpochTime()
GetEpochTime(M) == M.ntpEpoc + U32Div(U32Sub(M.now, M.ntpLast), 1000)

\* timeClient.getSeconds()
GetSeconds(M) == GetEpochTime(M) % 60

\* timeClient.update() that receives a packet: the whole seconds of true UTC
NtpUpdate(M) == [M EXCEPT !.ntpEpoc = M.utc, !.ntpLast = M.now]

-----------------------------------------------------------------------------
(* updateTimeAndDate *)

\* the outcomes of one call: no WiFi, no answer from the time source, success
SyncResults == {"nowifi", "nontp", "ok"}

\* polls of  while (timeClient.getSeconds() == startSecond) delay(10);
AlignPolls(M) ==
  LET off == U32Mod(U32Sub(M.now, M.ntpLast), 1000)
  IN  ((1000 - off) + PollMs - 1) \div PollMs

\* the machine when the alignment loop exits
AlignWait(M) == Pass(M, ToU32(AlignPolls(M) * PollMs))

\* driftPerHour = (long)(currentDrift / hoursElapsed)
DriftPerHour(currentDrift, expectedElapsedSeconds) ==
  F32ToLong(F32Div(IntToF32(currentDrift),
                   RatToF32(expectedElapsedSeconds, 225, 4)))

\* a blend that gives the old estimate a negative weight
BlendDriftOvershoots(driftPerHour, old) == TruncDiv(driftPerHour * 5 - old, 4)

\* driftCorrection = (driftPerHour * 3 + driftCorrection) / 4
BlendDrift(driftPerHour, old) == TruncDiv(driftPerHour * 3 + old, 4)

\* a * k modulo 2^32 for an unsigned long a and 0 < k <= 32767
U32MulK(a, k) ==
  LET lo == a[2] * k
      hi == a[1] * k + (lo \div Half)
  IN  <<hi % Half, lo % Half>>

\* the drift estimate a successful sync leaves
DriftUpdate(M, utcTime) ==
  IF M.lastNtpTimestamp > 0 /\ M.lastNtpMillis # U32Zero THEN
    LET expectedElapsedSeconds == FromLong(utcTime - M.lastNtpTimestamp)
        actualElapsedMillis    == U32Sub(M.now, M.lastNtpMillis)
    IN  IF U32Lt(ToU32(MinDriftSeconds), expectedElapsedSeconds) THEN
          LET expectedElapsedMillis == U32MulK(expectedElapsedSeconds, 1000)
              currentDrift ==
                ToLong(U32Sub(actualElapsedMillis, expectedElapsedMillis))
          IN  BlendDrift(DriftPerHour(currentDrift, expectedElapsedSeconds),
                         M.driftCorrection)
        ELSE M.driftCorrection
  ELSE M.driftCorrection

\* time_t localTime = utcTime + (timezone * 3600): the sum is a float sum
LocalTime(utcTime, tz) == RoundF32(RoundF32(utcTime) + tz * 900)

\* an adjustment made in every time zone
DstAdjustAnyZone(utcTime, tz) ==
  IF shouldApplyDST(Gmtime(utcTime)) THEN 3600 ELSE 0

\* if (shouldApplyDst && timezone < 0)
DstAdjust(utcTime, tz) ==
  IF shouldApplyDST(Gmtime(utcTime)) /\ tz < 0 THEN 3600 ELSE 0

\* an early return that clears the flag on its way out
SyncFailedResets(M) == [M EXCEPT !.timeInitialized = FALSE]

\* an early return that sets the flag on its way out
SyncFailedInitializes(M) == [M EXCEPT !.timeInitialized = TRUE]

\* the early returns: nothing is assigned
SyncFailed(M) == M

\* the assignments of a successful call: M2 is the machine when the time is
\* read, utcTime the reading, ti the local time broken down
SyncStore(M2, utcTime, ti, performPreciseSync) ==
  [M2 EXCEPT
     !.driftCorrection  = DriftUpdate(M2, utcTime),
     !.lastNtpTimestamp = utcTime,
     !.lastNtpMillis    = M2.now,
     !.hours            = ti.tm_hour,
     !.minutes          = ti.tm_min,
     !.seconds          = IF performPreciseSync THEN GetSeconds(M2)
                          ELSE ti.tm_sec,
     !.dayOfMonth       = ti.tm_mday,
     !.month            = ti.tm_mon + 1,
     !.year             = ti.tm_year + 1900,
     !.dayOfWeek        = ti.tm_wday,
     !.currentHour      = ti.tm_hour,
     !.timeInitialized  = TRUE,
     !.lastSecondUpdate = M2.now,
     !.lastTimeUpdate   = M2.now]

\* ti = gmtime(&localTime) for the reading utcTime
SyncDecompose(M2, utcTime, performPreciseSync) ==
  SyncStore(M2, utcTime,
            Gmtime(LocalTime(utcTime, M2.timezone)
                   + DstAdjust(utcTime, M2.timezone)),
            performPreciseSync)

\* utcTime = timeClient.getEpochTime(), after the alignment if there is one
SyncAlign(M1, performPreciseSync) ==
  IF performPreciseSync
  THEN SyncDecompose(AlignWait(M1), GetEpochTime(AlignWait(M1)), TRUE)
  ELSE SyncDecompose(M1, GetEpochTime(M1), FALSE)

\* an alignment that is attempted at every second
PreciseSyncAlways(M1) == GetSeconds(M1) < 60

\* if (currentSecond < 58), for the machine M1 that holds the new packet
PreciseSync(M1) == GetSeconds(M1) < PreciseSyncLimit

\* the body run when timeClient.update() returns true
SyncSucceeded(M) == SyncAlign(NtpUpdate(M), PreciseSync(NtpUpdate(M)))

\* what a call reports for the record of the operation
NoSync ==
  [called |-> FALSE, ok |-> FALSE, res |-> "none", precise |-> FALSE,
   utcTime |-> 0, polls |-> 0, tz |-> 0, end |-> U32Zero, second |-> 0]

\* the result of a call on M that succeeded and left R
SyncReport(M, R, res) ==
  [M |-> R, ret |-> TRUE,
   info |-> [called |-> TRUE, ok |-> TRUE, res |-> res,
             precise |-> PreciseSync(NtpUpdate(M)),
             utcTime |-> R.lastNtpTimestamp,
             polls |-> IF PreciseSync(NtpUpdate(M))
                       THEN AlignPolls(NtpUpdate(M)) ELSE 0,
             tz |-> M.timezone, end |-> R.now,
             second |-> GetSeconds(NtpUpdate(M))],
   before |-> WallClock(M)]

\* the result of a call on M that failed and left R
FailReport(M, R, res) ==
  [M |-> R, ret |-> FALSE,
   info |-> [called |-> TRUE, ok |-> FALSE, res |-> res,
             precise |-> FALSE, utcTime |-> 0, polls |-> 0,
             tz |-> M.timezone, end |-> R.now, second |-> 0],
   before |-> WallClock(M)]

\* one call of updateTimeAndDate() on machine M with outcome res
UpdateTimeAndDate(M, res) ==
  IF res = "ok" THEN SyncReport(M, SyncSucceeded(M), res)
  ELSE FailReport(M, SyncFailed(M), res)

-----------------------------------------------------------------------------
(* updateCurrentTime *)

\* the wrapped branch without its + 1
ElapsedMsNoCarry(currentMillis, last) ==
  IF U32Lt(currentMillis, last)
  THEN U32Add(U32Sub(UINT_MAX, last), currentMillis)
  ELSE U32Sub(currentMillis, last)

\* elapsedMs, with the branch for a millis() that has wrapped
ElapsedMs(currentMillis, last) ==
  IF U32Lt(currentMillis, last)
  THEN U32Add(U32Add(U32Sub(UINT_MAX, last), currentMillis), <<0, 1>>)
  ELSE U32Sub(currentMillis, last)

\* a correction that takes the elapsed milliseconds for seconds: the hours
\* are elapsedMs / 3600.0
CorrectionOfSeconds(drift, elapsedMs) ==
  F32ToLong(F32Mul(IntToF32(drift), RatToF32(elapsedMs, 225, 4)))

\* correctionSinceLastSecond = (long)(driftCorrection * hoursSinceLastSecond)
CorrectionSinceLastSecond(drift, elapsedMs) ==
  F32ToLong(F32Mul(IntToF32(drift), RatToF32(elapsedMs, 28125, 7)))

\* a correction that is subtracted and never limited
ClampElapsedNever(c) == c

\* if (correctedElapsedMs < 0) correctedElapsedMs = 0
ClampElapsed(c) == IF c < 0 THEN 0 ELSE c

\* correctedElapsedMs: a long, so an elapsedMs of 2^31 or more is negative
CorrectedElapsedMs(elapsedMs, drift, ntpTimestamp) ==
  IF ntpTimestamp > 0 THEN
    ClampElapsed(
      ToLong(U32Sub(elapsedMs,
                    FromLong(CorrectionSinceLastSecond(drift, elapsedMs)))))
  ELSE ToLong(elapsedMs)

\* a carry loop that tests hours > 24
MinutesToMidnightLate(h, m) == (25 - h) * 60 - m

\* rounds of the carry loop that take the clock to hours >= 24
MinutesToMidnight(h, m) == (24 - h) * 60 - m

\* if (correctedElapsedMs >= 1000)
WholeSecondElapsed(correctedElapsedMs) == correctedElapsedMs >= MsPerSecond

\* a carry loop that tests seconds > 60 * 2 - 1 and so stops a round early
CarryMinutesLate(M) ==
  LET n  == (M.seconds \div 60) - 1
      mm == M.hours * 60 + M.minutes + n
  IN  [M EXCEPT !.seconds = M.seconds - 60 * n,
                !.minutes = mm % 60,
                !.hours   = mm \div 60]

\* a carry loop that resets minutes at 60 without advancing hours
CarryMinutesDropsHour(M) ==
  LET n  == M.seconds \div 60
      mm == M.hours * 60 + M.minutes + n
  IN  [M EXCEPT !.seconds = M.seconds - 60 * n,
                !.minutes = mm % 60]

\* the carry loop run to its end without reaching midnight
CarryMinutes(M) ==
  LET n  == M.seconds \div 60
      mm == M.hours * 60 + M.minutes + n
  IN  [M EXCEPT !.seconds = M.seconds - 60 * n,
                !.minutes = mm % 60,
                !.hours   = mm \div 60]

\* a carry loop that advances the day of the month at midnight by itself
CarryToMidnightNextDay(M) ==
  [M EXCEPT !.seconds = M.seconds - 60 * MinutesToMidnight(M.hours, M.minutes),
            !.minutes = 0,
            !.hours   = 0,
            !.dayOfMonth = M.dayOfMonth + 1]

\* the carry loop run up to the round that finds hours >= 24: hours = 0 and
\* nothing else of the date is touched before updateTimeAndDate() is called
CarryToMidnight(M) ==
  [M EXCEPT !.seconds = M.seconds - 60 * MinutesToMidnight(M.hours, M.minutes),
            !.minutes = 0,
            !.hours   = 0]

\* the count of the calls made from the carry loop, with the last of them
Counted(acc, r) ==
  [calls |-> acc.calls + 1, last |-> r.info, at |-> r.before,
   after |-> WallClock(r.M)]

\* a carry that puts the seconds it had not carried yet on top of the second
\* a successful call stored
AfterMidnightKeepsRest(r, res, acc) ==
  [M |-> [r.M EXCEPT !.seconds = (@ + r.before.second + 1) % 60],
   sync |-> Counted(acc, r)]

\* while (seconds >= 60) { ... }: every round that reaches midnight calls
\* updateTimeAndDate(); a call that succeeds stores seconds < 60 and so ends
\* the loop.  acc counts the calls; r is the result of the call at midnight.
RECURSIVE CarryLoop(_, _, _)
RECURSIVE AfterMidnight(_, _, _)
CarryLoop(M, res, acc) ==
  IF M.seconds < 60 THEN [M |-> M, sync |-> acc]
  ELSE IF M.seconds \div 60 < MinutesToMidnight(M.hours, M.minutes)
  THEN [M |-> CarryMinutes(M), sync |-> acc]
  ELSE AfterMidnight(UpdateTimeAndDate(CarryToMidnight(M), res), res, acc)

AfterMidnight(r, res, acc) ==
  IF r.ret THEN [M |-> r.M, sync |-> Counted(acc, r)]
  ELSE CarryLoop(r.M, res, Counted(acc, r))

NoTick ==
  [called |-> FALSE, ran |-> FALSE, rolled |-> FALSE, elapsedMs |-> U32Zero,
   corrected |-> 0, added |-> 0, calls |-> 0, sync |-> NoSync]

\* if (currentMillis < lastSecondUpdate)
Rolled(M) == U32Lt(M.now, M.lastSecondUpdate)

\* if (lastNtpMillis > currentMillis) lastTimeUpdate = 0, on a rollover
ForceUpdate(M) ==
  IF Rolled(M) /\ U32Lt(M.now, M.lastNtpMillis)
  THEN [M EXCEPT !.lastTimeUpdate = U32Zero] ELSE M

\* a tick that takes the current millis() for its mark
AddSecondsDropsRemainder(M1, correctedElapsedMs) ==
  [M1 EXCEPT
     !.lastSecondUpdate = M1.now,
     !.seconds = M1.seconds + (correctedElapsedMs \div 1000)]

\* lastSecondUpdate = currentMillis - (correctedElapsedMs % 1000);
\* seconds += secondsToAdd
AddSeconds(M1, correctedElapsedMs) ==
  [M1 EXCEPT
     !.lastSecondUpdate = U32Sub(M1.now, ToU32(correctedElapsedMs % 1000)),
     !.seconds = M1.seconds + (correctedElapsedMs \div 1000)]

\* the tick that added seconds: c is what the carry loop left
TickReport(M, elapsedMs, correctedElapsedMs, c) ==
  [M |-> [c.M EXCEPT !.currentHour = c.M.hours],
   info |-> [called |-> TRUE, ran |-> TRUE, rolled |-> Rolled(M),
             elapsedMs |-> elapsedMs, corrected |-> correctedElapsedMs,
             added |-> correctedElapsedMs \div 1000, calls |-> c.sync.calls,
             sync |-> c.sync.last],
   at |-> c.sync.at, after |-> c.sync.after]

\* the tick that found less than a second due: M1 is the machine it leaves
IdleReport(M1, rolled, elapsedMs, correctedElapsedMs) ==
  [M |-> M1,
   info |-> [called |-> TRUE, ran |-> TRUE, rolled |-> rolled,
             elapsedMs |-> elapsedMs, corrected |-> correctedElapsedMs,
             added |-> 0, calls |-> 0, sync |-> NoSync],
   at |-> WallClock(M1), after |-> WallClock(M1)]

\* the counts with which the carry loop starts on M2
CarryStart(M2, res) ==
  CarryLoop(M2, res, [calls |-> 0, last |-> NoSync, at |-> WallClock(M2),
                      after |-> WallClock(M2)])

\* the tick from  if (correctedElapsedMs >= 1000)  on
TickCorrected(M, res, elapsedMs, correctedElapsedMs) ==
  IF WholeSecondElapsed(correctedElapsedMs)
  THEN TickReport(M, elapsedMs, correctedElapsedMs,
                  CarryStart(AddSeconds(ForceUpdate(M), correctedElapsedMs),
                             res))
  ELSE IdleReport(ForceUpdate(M), Rolled(M), elapsedMs, correctedElapsedMs)

\* the tick once elapsedMs is known
TickElapsed(M, res, elapsedMs) ==
  TickCorrected(M, res, elapsedMs,
                CorrectedElapsedMs(elapsedMs, M.driftCorrection,
                                   M.lastNtpTimestamp))

\* a tick without  if (!timeInitialized) return
UpdateCurrentTimeUnguarded(M, res) ==
  TickElapsed(M, res, ElapsedMs(M.now, M.lastSecondUpdate))

\* one call of updateCurrentTime() on machine M; res is the outcome of the
\* updateTimeAndDate() calls it makes
UpdateCurrentTime(M, res) ==
  IF ~M.timeInitialized
  THEN [M |-> M, info |-> [NoTick EXCEPT !.called = TRUE],
        at |-> WallClock(M), after |-> WallClock(M)]
  ELSE TickElapsed(M, res, ElapsedMs(M.now, M.lastSecondUpdate))

-----------------------------------------------------------------------------
(* Inputs of the model *)

\* true UTC time at power-on, as whole seconds and the milliseconds past
\* them: 2024-03-10 06:59:57.000 and 2024-03-10 04:56:55.990
Boots == {<<1710053997, 0>>, <<1710046615, 990>>}

\* milliseconds setup() takes to reach its call of updateTimeAndDate()
BootMs == 3000

\* the time zone a settings request carries, in quarter hours: UTC+5:30
Timezones == {22}

\* 2^32 - 5100: an idle period that ends shortly before millis() wraps
AlmostWrap == <<65535, 60436>>

\* time between two operations, in ms.  loop() returns early while the
\* configuration portal is in use and leaves every variable of the model
\* alone, so a period can be long.
Deltas ==
  {ToU32(999), ToU32(1000), ToU32(1999), ToU32(299010), ToU32(600010), ToU32(86400000),
   AlmostWrap}

\* time between two operations while the station is not connected, in ms
Outages == {ToU32(1000), ToU32(600010)}

-----------------------------------------------------------------------------
(* History kept for the properties: time in (seconds, milliseconds)        *)

TimeZero == [sec |-> 0, ms |-> 0]

TimeAdd(t, d) ==
  LET m == t.ms + U32Mod(d, 1000)
  IN  [sec |-> t.sec + U32Div(d, 1000) + (m \div 1000), ms |-> m % 1000]

\* an unsigned long of milliseconds as (seconds, milliseconds)
TimeOf(a) == [sec |-> U32Div(a, 1000), ms |-> U32Mod(a, 1000)]

\* 2^32 ms = 4294967 s + 296 ms
RECURSIVE TimeMod32(_)
TimeMod32(t) ==
  IF t.sec > 4294967 \/ (t.sec = 4294967 /\ t.ms >= 296)
  THEN TimeMod32(IF t.ms >= 296
                 THEN [sec |-> t.sec - 4294967, ms |-> t.ms - 296]
                 ELSE [sec |-> t.sec - 4294968, ms |-> t.ms + 704])
  ELSE t

TimeOfDay(w) == w.hour * 3600 + w.minute * 60 + w.second

Min(a, b) == IF a < b THEN a ELSE b

\* hist.forced: a resync forced by a passage of midnight or by a change of
\* the settings has failed and no synchronisation has succeeded since.
\* hist after an operation in which d ms went by, then updateCurrentTime()
\* reported t (NoTick if it was not called) and then a direct call of
\* updateTimeAndDate() reported y (NoSync if there was none); F is the
\* machine at the end
HistAfter(h, d, t, y, F) ==
  LET since0 == TimeAdd(h.since, d)
      base0  == TimeAdd(h.base, d)
      tickOk == t.sync.called /\ t.sync.ok
      anyOk  == tickOk \/ (y.called /\ y.ok)
      moved  == t.ran /\ t.corrected >= MsPerSecond
      f1     == IF tickOk THEN 0 ELSE Min(MaxFails, h.fails + t.calls)
      f2     == IF y.called
                THEN (IF y.ok THEN 0 ELSE Min(MaxFails, f1 + 1)) ELSE f1
  IN  [since    |-> IF anyOk THEN TimeZero
                    ELSE IF moved THEN [sec |-> 0, ms |-> t.corrected % 1000]
                    ELSE since0,
       base     |-> IF anyOk THEN TimeZero ELSE base0,
       added    |-> IF anyOk THEN 0 ELSE h.added + t.added,
       baseTod  |-> IF anyOk THEN TimeOfDay(WallClock(F)) ELSE h.baseTod,
       fails    |-> f2,
       streak   |-> IF y.called /\ y.ok THEN f1
                    ELSE IF tickOk THEN h.fails ELSE h.streak,
       rollPending |-> IF y.called THEN FALSE
                       ELSE IF t.sync.called THEN FALSE
                       ELSE (t.rolled \/ h.rollPending),
       forced   |-> IF anyOk THEN FALSE
                    ELSE IF t.sync.called THEN TRUE
                    ELSE h.forced]

-----------------------------------------------------------------------------
(* resetTimeWithNewTimezone *)

\* a reset that goes straight to the update and leaves the flag alone
ResetKeepsInitialized(M, connected, res) ==
  IF connected THEN UpdateTimeAndDate(M, res)
  ELSE [M |-> M, ret |-> FALSE, info |-> NoSync, before |-> WallClock(M)]

\* timeInitialized = false, then updateTimeAndDate() if WiFi is connected
ResetTimeWithNewTimezone(M, connected, res) ==
  LET M1 == [M EXCEPT !.timeInitialized = FALSE]
  IN  IF connected THEN UpdateTimeAndDate(M1, res)
      ELSE [M |-> M1, ret |-> FALSE, info |-> NoSync, before |-> WallClock(M1)]

-----------------------------------------------------------------------------
(* Initial state and operations *)

\* no pure function has been evaluated on its own
NoProbe == [fn |-> "none"]

HistInit ==
  [since |-> TimeZero, base |-> TimeZero, added |-> 0, baseTod |-> 0,
   fails |-> 0, streak |-> 0, rollPending |-> FALSE, forced |-> FALSE]

\* the record of an operation: what went by and what the calls reported
Trace(op, d, pre, t, tAt, tSync, tAfter, y, yBefore, yAfter, h) ==
  [op |-> op, d |-> d, pre |-> pre,
   tick |-> t, tickAt |-> tAt, tickSyncAfter |-> tSync, tickAfter |-> tAfter,
   sync |-> y, syncBefore |-> yBefore, syncAfter |-> yAfter,
   since |-> TimeMod32(TimeAdd(h.since, d)),
   base |-> TimeAdd(h.base, d),
   added |-> h.added + t.added,
   baseTod |-> h.baseTod,
   pending |-> h.rollPending,
   forced |-> h.forced,
   fails |-> h.fails]

Install(M) ==
  /\ hours' = M.hours
  /\ minutes' = M.minutes
  /\ seconds' = M.seconds
  /\ dayOfMonth' = M.dayOfMonth
  /\ month' = M.month
  /\ year' = M.year
  /\ dayOfWeek' = M.dayOfWeek
  /\ currentHour' = M.currentHour
  /\ timeInitialized' = M.timeInitialized
  /\ lastTimeUpdate' = M.lastTimeUpdate
  /\ lastSecondUpdate' = M.lastSecondUpdate
  /\ timezone' = M.timezone
  /\ driftCorrection' = M.driftCorrection
  /\ lastNtpTimestamp' = M.lastNtpTimestamp
  /\ lastNtpMillis' = M.lastNtpMillis
  /\ now' = M.now
  /\ utc' = M.utc
  /\ phase' = M.phase
  /\ ntpEpoc' = M.ntpEpoc
  /\ ntpLast' = M.ntpLast

\* the globals as config.cpp defines them; the device is powered on at some
\* instant of true time
Init ==
  /\ hours = 0 /\ minutes = 0 /\ seconds = 0
  /\ dayOfMonth = 1 /\ month = 1 /\ year = 2025
  /\ dayOfWeek = 1
  /\ currentHour = 12
  /\ timeInitialized = FALSE
  /\ lastTimeUpdate = U32Zero
  /\ lastSecondUpdate = U32Zero
  /\ timezone = -20
  /\ driftCorrection = 0
  /\ lastNtpTimestamp = 0
  /\ lastNtpMillis = U32Zero
  /\ loopLastTimeUpdate = U32Zero
  /\ lastWifiCheck = U32Zero
  /\ initialSetupDone = FALSE
  /\ pc = "boot"
  /\ now = U32Zero
  /\ \E b \in Boots : utc = b[1] /\ phase = b[2]
  /\ ntpEpoc = 0
  /\ ntpLast = U32Zero
  /\ wifi = FALSE
  /\ steps = 0
  /\ tr = Trace("init", U32Zero, WallClock(Machine), NoTick,
                WallClock(Machine), WallClock(Machine), WallClock(Machine),
                NoSync,
                WallClock(Machine), WallClock(Machine), HistInit)
  /\ hist = HistInit
  /\ probe = NoProbe

\* the outcome of a call that is not made
NotCalled(M) ==
  [M |-> M, ret |-> FALSE, info |-> NoSync, before |-> WallClock(M)]

\* millis() - mark >= interval, in unsigned arithmetic
Expired(M, mark, interval) == ~U32Lt(U32Sub(M.now, mark), ToU32(interval))

\* Each operation is computed once, as a record of the machine it leaves
\* and of the other variables it sets, and then installed.

\* milliseconds that the report updateTimeAndDate() prints on the serial
\* line after its last reading of millis() may take
ReportLags == {0, 12}

\* timeInitialized = true; lastSecondUpdate = millis(); in setup()
SetupStamp(M) ==
  [M EXCEPT !.timeInitialized = TRUE, !.lastSecondUpdate = M.now]

\* setup() from the result r of its call on, M0 the machine before the call,
\* lag the milliseconds between the call's last millis() and setup()'s
SetupDone(pre, M0, d, r, lag) ==
  [M |-> IF r.ret THEN SetupStamp(Pass(r.M, ToU32(lag))) ELSE r.M,
   tr |-> Trace("setup", d, pre, NoTick, WallClock(M0), WallClock(M0),
                WallClock(M0), r.info, r.before, WallClock(r.M), hist),
   hist |-> [HistAfter(hist, d, NoTick, r.info,
                       IF r.ret THEN SetupStamp(Pass(r.M, ToU32(lag)))
                       ELSE r.M)
               EXCEPT !.base = IF r.ret THEN TimeOf(ToU32(lag)) ELSE @]]

SetupStep(connected, res, lag) ==
  SetupDone(WallClock(Machine), Pass(Machine, ToU32(BootMs)), ToU32(BootMs),
            IF connected
            THEN UpdateTimeAndDate(Pass(Machine, ToU32(BootMs)), res)
            ELSE NotCalled(Pass(Machine, ToU32(BootMs))),
            lag)

\* setup(): connect, then one call of updateTimeAndDate()
Setup(connected, res, lag) ==
  /\ pc = "boot"
  /\ steps < MaxSteps
  /\ \E R \in {SetupStep(connected, res, lag)} :
       /\ Install(R.M)
       /\ tr' = R.tr
       /\ hist' = R.hist
  /\ wifi' = connected
  /\ pc' = "loop"
  /\ steps' = steps + 1
  /\ UNCHANGED <<loopLastTimeUpdate, lastWifiCheck, initialSetupDone, probe>>

\* the iteration once the periodic update is over: t is the result of
\* updateCurrentTime(), r that of updateTimeAndDate()
LoopDone(pre, d, mark, t, due, r) ==
  [M |-> r.M,
   loopLastTimeUpdate |-> IF due THEN r.M.now ELSE mark,
   lastWifiCheck |-> IF Expired(r.M, lastWifiCheck, WifiCheckInterval)
                     THEN r.M.now ELSE lastWifiCheck,
   tr |-> Trace("online", d, pre, t.info, t.at, t.after, WallClock(t.M),
                r.info, r.before, WallClock(r.M), hist),
   hist |-> HistAfter(hist, d, t.info, r.info, r.M)]

\* a loop() without the periodic update
LoopUpdateNever(pre, d, mark, t, due, res) ==
  LoopDone(pre, d, mark, t, FALSE, NotCalled(t.M))

\* if (millis() - lastTimeUpdate >= 10 * 60 * 1000) updateTimeAndDate()
LoopUpdate(pre, d, mark, t, due, res) ==
  LoopDone(pre, d, mark, t, due,
           IF due THEN UpdateTimeAndDate(t.M, res) ELSE NotCalled(t.M))

\* the iteration from the return of updateCurrentTime() on
LoopTicked(pre, d, mark, t, res) ==
  LoopUpdate(pre, d, mark, t, Expired(t.M, mark, NtpInterval), res)

\* the iteration that starts on machine M0: the first one after a connection
\* sets the mark of the periodic update to millis()
LoopFrom(pre, M0, d, res) ==
  LoopTicked(pre, d,
             IF initialSetupDone THEN loopLastTimeUpdate ELSE M0.now,
             UpdateCurrentTime(M0, res), res)

LoopOnlineStep(d, res) ==
  LoopFrom(WallClock(Machine), Pass(Machine, d), d, res)

\* loop() while WiFi.status() == WL_CONNECTED, d ms after the last operation
LoopOnline(d, res) ==
  /\ pc = "loop"
  /\ steps < MaxSteps
  /\ \E R \in {LoopOnlineStep(d, res)} :
       /\ Install(R.M)
       /\ loopLastTimeUpdate' = R.loopLastTimeUpdate
       /\ lastWifiCheck' = R.lastWifiCheck
       /\ tr' = R.tr
       /\ hist' = R.hist
  /\ initialSetupDone' = TRUE
  /\ wifi' = TRUE
  /\ steps' = steps + 1
  /\ UNCHANGED <<pc, probe>>

LoopOfflineStep(d) ==
  LET M0    == Pass(Machine, d)
      check == Expired(M0, lastWifiCheck, WifiCheckInterval)
  IN  [M |-> M0,
       lastWifiCheck |-> IF check THEN M0.now ELSE lastWifiCheck,
       initialSetupDone |-> IF check THEN FALSE ELSE initialSetupDone,
       tr |-> Trace("offline", d, WallClock(Machine), NoTick, WallClock(M0),
                    WallClock(M0), WallClock(M0), NoSync, WallClock(M0), WallClock(M0), hist),
       hist |-> HistAfter(hist, d, NoTick, NoSync, M0)]

\* loop() while the station is not connected: no clock operation is called
LoopOffline(d) ==
  /\ pc = "loop"
  /\ steps < MaxSteps
  /\ \E R \in {LoopOfflineStep(d)} :
       /\ Install(R.M)
       /\ lastWifiCheck' = R.lastWifiCheck
       /\ initialSetupDone' = R.initialSetupDone
       /\ tr' = R.tr
       /\ hist' = R.hist
  /\ wifi' = FALSE
  /\ steps' = steps + 1
  /\ UNCHANGED <<pc, loopLastTimeUpdate, probe>>

\* the handler from the return of resetTimeWithNewTimezone() on
SaveDone(pre, M0, r) ==
  [M |-> r.M,
   tr |-> Trace("save", U32Zero, pre, NoTick, WallClock(M0), WallClock(M0),
                WallClock(M0), r.info, r.before, WallClock(r.M), hist),
   hist |-> [HistAfter(hist, U32Zero, NoTick, r.info, r.M)
               EXCEPT !.forced = IF r.info.called /\ ~r.ret THEN TRUE ELSE @]]

\* saveSettings() stores the time zone; lastTimeUpdate = 0
SaveSettings(M, tz) == [M EXCEPT !.timezone = tz, !.lastTimeUpdate = U32Zero]

SettingsSaveStep(tz, connected, res) ==
  SaveDone(WallClock(Machine), SaveSettings(Machine, tz),
           IF connected
           THEN ResetTimeWithNewTimezone(SaveSettings(Machine, tz),
                                         connected, res)
           ELSE NotCalled(SaveSettings(Machine, tz)))

\* handleSettingsSave() with a valid time zone tz, run from
\* server.handleClient() at the head of loop()
SettingsSave(tz, connected, res) ==
  /\ pc = "loop"
  /\ steps < MaxSteps
  /\ \E R \in {SettingsSaveStep(tz, connected, res)} :
       /\ Install(R.M)
       /\ tr' = R.tr
       /\ hist' = R.hist
  /\ wifi' = connected
  /\ steps' = steps + 1
  /\ UNCHANGED <<pc, loopLastTimeUpdate, lastWifiCheck, initialSetupDone,
               probe>>

Next ==
  \/ \E c \in BOOLEAN, res \in SyncResults, lag \in ReportLags :
       Setup(c, res, lag)
  \/ \E d \in Deltas, res \in SyncResults : LoopOnline(d, res)
  \/ \E d \in Outages : LoopOffline(d)
  \/ \E tz \in Timezones, c \in BOOLEAN, res \in SyncResults :
       SettingsSave(tz, c, res)

Spec == Init /\ [][Next]_vars

-----------------------------------------------------------------------------
(* shouldApplyDST evaluated on its own, on the struct tm that gmtime()      *)
(* gives for an instant of the day numbered day                             *)

DstCheck(day) ==
  /\ probe = NoProbe
  /\ probe' = [fn |-> "dst",
               timeinfo |-> Gmtime(day * SecondsPerDay),
               result |-> shouldApplyDST(Gmtime(day * SecondsPerDay))]
  /\ UNCHANGED <<progVars, envVars, steps, tr, hist>>

DstNext == \E day \in FirstDay..LastDay : DstCheck(day)

DstSpec == Init /\ [][DstNext]_vars

-----------------------------------------------------------------------------
(* The blend of the drift estimate evaluated on its own, on a sequence of   *)
(* samples: each successful synchronisation feeds one sample               *)

Rates == (-MaxRate)..MaxRate

\* the estimate old blended with sample, as the n-th of the run; steady says
\* that all the samples so far are the same
Blended(old, sample, n, steady) ==
  [fn |-> "blend", old |-> old, sample |-> sample,
   new |-> BlendDrift(sample, old), n |-> n, steady |-> steady]

\* the first sample, on an estimate old
BlendFirst(old, sample) ==
  /\ probe = NoProbe
  /\ probe' = Blended(old, sample, 1, TRUE)
  /\ UNCHANGED <<progVars, envVars, steps, tr, hist>>

\* a further sample, on the estimate the last one left
BlendAgain(sample) ==
  /\ probe.fn = "blend"
  /\ probe.n < MaxSyncs
  /\ probe' = Blended(probe.new, sample, probe.n + 1,
                      probe.steady /\ sample = probe.sample)
  /\ UNCHANGED <<progVars, envVars, steps, tr, hist>>

BlendNext ==
  \/ \E old \in Rates, sample \in Rates : BlendFirst(old, sample)
  \/ \E sample \in Rates : BlendAgain(sample)

BlendSpec == Init /\ [][BlendNext]_vars

-----------------------------------------------------------------------------
(* The run in which the trouble ends: for TroubleSteps operations anything  *)
(* may happen; from then on loop() keeps running with WiFi connected and    *)
(* timeClient.update() answers every call.  loop() is called again and      *)
(* again by the Arduino core, which is the fairness assumed.  The           *)
(* iterations that matter for the schedule are those a periodic interval    *)
(* or more apart.                                                           *)

\* time between two iterations of the connected loop() that are followed:
\* ten minutes and a day, both far from a whole turn of millis()
LiveDeltas == {ToU32(600010), ToU32(86400000)}

LiveNext ==
  \/ \E c \in BOOLEAN, res \in SyncResults, lag \in ReportLags :
       steps < TroubleSteps /\ Setup(c, res, lag)
  \/ \E d \in Deltas, res \in SyncResults :
       steps < TroubleSteps /\ LoopOnline(d, res)
  \/ \E d \in Outages : steps < TroubleSteps /\ LoopOffline(d)
  \/ \E tz \in Timezones, c \in BOOLEAN, res \in SyncResults :
       steps < TroubleSteps /\ SettingsSave(tz, c, res)
  \/ \E d \in LiveDeltas : steps >= TroubleSteps /\ LoopOnline(d, "ok")

LiveSpec == Init /\ [][LiveNext]_vars /\ WF_vars(LiveNext)

-----------------------------------------------------------------------------
(* The alignment loop of updateTimeAndDate() followed poll by poll:         *)
(*   while (timeClient.getSeconds() == startSecond) delay(10);              *)
(* The loop has no counter.  What ends it is the value the time source      *)
(* returns, which the program does not control: the NTPClient library       *)
(* derives it from millis(), a source behind the same interface may return  *)
(* the second it returned before.                                           *)

\* the seconds timeClient.getSeconds() may return on a poll
SourceSeconds(M, startSecond) == {GetSeconds(M), startSecond}

\* timeClient.update() returned true; currentSecond is read
AlignStart ==
  /\ probe = NoProbe
  /\ pc = "boot"
  /\ \E M1 \in {NtpUpdate(Pass(Machine, ToU32(BootMs)))} :
       /\ Install(M1)
       /\ probe' = [fn |-> "align", startSecond |-> GetSeconds(M1),
                    polls |-> 0,
                    waiting |-> GetSeconds(M1) < PreciseSyncLimit]
  /\ UNCHANGED <<loopLastTimeUpdate, lastWifiCheck, initialSetupDone, pc,
                 wifi, steps, tr, hist>>

\* one evaluation of the loop condition with the source returning s, and
\* delay(10) when the condition holds
AlignPoll(s) ==
  /\ probe.fn = "align"
  /\ probe.waiting
  /\ probe.polls < MaxPolls
  /\ IF s = probe.startSecond
     THEN /\ Install(Pass(Machine, ToU32(PollMs)))
          /\ probe' = [probe EXCEPT !.polls = @ + 1]
     ELSE /\ Install(Machine)
          /\ probe' = [probe EXCEPT !.waiting = FALSE]
  /\ UNCHANGED <<loopLastTimeUpdate, lastWifiCheck, initialSetupDone, pc,
                 wifi, steps, tr, hist>>

AlignNext ==
  \/ AlignStart
  \/ \E s \in 0..59 :
       /\ probe.fn = "align"
       /\ s \in SourceSeconds(Machine, probe.startSecond)
       /\ AlignPoll(s)

AlignSpec == Init /\ [][AlignNext]_vars

-----------------------------------------------------------------------------
(* The drift correction of updateCurrentTime() evaluated on its own, for a  *)
(* driftCorrection and an elapsedMs drawn from the sets below               *)

\* values of driftCorrection, in ms per hour
DriftRates ==
  {-7200000, -3600001, -3600, -1800, -1799, -900, -375, -1, 0, 1, 375, 900,
   1799, 1800, 3600, 5489, 7200, 3599999, 3600000, 3600001, 7200000}

\* values of elapsedMs
ElapsedTimes ==
  {0, 1, 999, 1000, 1001, 1999, 2000, 2001, 3000, 4000, 4591, 59999, 60000,
   67200, 3600000, 86400000}

\* milliseconds between two calls of updateCurrentTime()
TickGaps == {999, 1000, 1999, 2000}

\* the machine that has been synchronized, holds the drift estimate drift
\* and reads millis() elapsedMs after its last tick mark
DriftMachine(drift, elapsedMs) ==
  [Machine EXCEPT !.timeInitialized = TRUE,
                  !.lastNtpTimestamp = utc,
                  !.driftCorrection = drift,
                  !.now = U32Add(lastSecondUpdate, ToU32(elapsedMs))]

\* updateCurrentTime() on that machine, a resync at midnight failing
CorrectionOf(drift, elapsedMs, M) ==
  [fn |-> "correction", drift |-> drift, elapsedMs |-> elapsedMs,
   correction |-> CorrectionSinceLastSecond(drift, ToU32(elapsedMs)),
   corrected |-> CorrectedElapsedMs(ToU32(elapsedMs), drift,
                                    M.lastNtpTimestamp),
   before |-> WallClock(M),
   tick |-> UpdateCurrentTime(M, "fail").info,
   after |-> WallClock(UpdateCurrentTime(M, "fail").M)]

CorrectionCheck(drift, elapsedMs) ==
  /\ probe = NoProbe
  /\ probe' = CorrectionOf(drift, elapsedMs, DriftMachine(drift, elapsedMs))
  /\ UNCHANGED <<progVars, envVars, steps, tr, hist>>

\* the clock after updateCurrentTime() is called d1 ms after the tick mark
\* of M and again d2 ms later
TickedTwice(M, d1, d2) ==
  WallClock(UpdateCurrentTime(
              Pass(UpdateCurrentTime(Pass(M, ToU32(d1)), "fail").M,
                   ToU32(d2)), "fail").M)

\* two calls on the machine with the estimate drift, next to the same two
\* calls on the machine with driftCorrection = 0
TwoTicks(drift, d1, d2) ==
  /\ probe = NoProbe
  /\ probe' = [fn |-> "ticks", drift |-> drift, d1 |-> d1, d2 |-> d2,
               after |-> TickedTwice(DriftMachine(drift, 0), d1, d2),
               plain |-> TickedTwice(DriftMachine(0, 0), d1, d2)]
  /\ UNCHANGED <<progVars, envVars, steps, tr, hist>>

CorrectionNext ==
  \/ \E drift \in DriftRates, elapsedMs \in ElapsedTimes :
       CorrectionCheck(drift, elapsedMs)
  \/ \E drift \in DriftRates, d1 \in TickGaps, d2 \in TickGaps :
       TwoTicks(drift, d1, d2)

CorrectionSpec == Init /\ [][CorrectionNext]_vars

-----------------------------------------------------------------------------
(* Properties.  Every state carries in tr the record of the operation that *)
(* led to it: tr.pre is the WallClock before the operation, tr.tick what   *)
(* updateCurrentTime() did and tr.tickAfter the WallClock it left,         *)
(* tr.tickAt and tr.tickSyncAfter the WallClock before and after the last  *)
(* updateTimeAndDate() called from the carry loop, tr.sync the call made   *)
(* by the operation itself with tr.syncBefore and tr.syncAfter around it.  *)
(* tr.base is the true time since the last successful synchronisation as   *)
(* of this operation's tick, tr.added the seconds the ticks added since    *)
(* then, tr.baseTod the time of day that synchronisation stored, tr.since  *)
(* the true time since the instant lastSecondUpdate denotes, modulo 2^32.  *)

\* the WallClock of the state
NowClock == WallClock(Machine)

\* the date fields and the weekday of a WallClock
DateOf(w) == <<w.dayOfMonth, w.month, w.year, w.weekday>>

\* the date fields and the weekday of the instant t
DateOfInstant(t) ==
  LET ti == Gmtime(t)
  IN  <<ti.tm_mday, ti.tm_mon + 1, ti.tm_year + 1900, ti.tm_wday>>

\* updateCurrentTime() was called on an initialized clock
TickRan == tr.tick.called /\ tr.tick.ran

\* an updateTimeAndDate() called from the carry loop succeeded / failed
TickSyncOk == tr.tick.sync.called /\ tr.tick.sync.ok
TickSyncFailed == tr.tick.sync.called /\ ~tr.tick.sync.ok

\* the operation's own updateTimeAndDate() succeeded / failed
SyncOk == tr.sync.called /\ tr.sync.ok
SyncNotOk == tr.sync.called /\ ~tr.sync.ok

\* the tick saw fewer than 1000 ms since lastSecondUpdate
ElapsedBelowSecond ==
  TickRan /\ tr.tick.elapsedMs[1] = 0 /\ tr.tick.elapsedMs[2] < MsPerSecond

\* the seconds the tick added take the time of day past 23:59:59
CrossesMidnight ==
  TickRan /\ TimeOfDay(tr.pre) + tr.tick.added >= SecondsPerDay

\* the unsigned long holding the time t (seconds, milliseconds) below 2^32 ms
U32OfTime(t) == U32Add(U32MulK(ToU32(t.sec), 1000), ToU32(t.ms))

\* the seconds updateCurrentTime() adds for a corrected elapsed time
SecondsFor(correctedElapsedMs) ==
  IF correctedElapsedMs >= 1000 THEN correctedElapsedMs \div 1000 ELSE 0

\* C1: after any tick of a run of ticks on an initialized clock, with zero
\* drift correction and no synchronize() called since the mark was set, and
\* with less than 2^32 ms gone by, the seconds added in total are
\* floor(elapsed / 1000) and the time of day is the start time of day plus
\* that many seconds, modulo 86400.
C1_TicksAddElapsedSeconds ==
  ( /\ TickRan
    /\ tr.fails = 0
    /\ tr.tick.calls = 0
    /\ tr.pre.driftCorrectionMsPerHour = 0
    /\ tr.base.sec < 4294967 )
    => /\ tr.added = tr.base.sec
       /\ TimeOfDay(tr.tickAfter) = (tr.baseTod + tr.added) % SecondsPerDay

\* C2: in every reachable state 0 <= hour < 24, 0 <= minute < 60 and
\* 0 <= second < 60.
C2_FieldsInRange ==
  /\ hours \in 0..23
  /\ minutes \in 0..59
  /\ seconds \in 0..59

\* a tick that caught up more than a minute at once, crossed midnight and
\* had its resync fail
C2_Witness ==
  /\ TickRan
  /\ tr.tick.added > 60
  /\ TickSyncFailed
  /\ C2_FieldsInRange

\* C3: a synchronize() that ends without connectivity or without a reading
\* returns false and leaves every WallClock field as it was before the call,
\* whether the call is made by the scheduler, by the settings handler or from
\* inside a tick.
C3_FailedSyncChangesNothing ==
  /\ (tr.sync.called /\ tr.sync.res # "ok")
       => (~tr.sync.ok /\ tr.syncAfter = tr.syncBefore)
  /\ (tr.tick.sync.called /\ tr.tick.sync.res # "ok")
       => (~tr.tick.sync.ok /\ tr.tickSyncAfter = tr.tickAt)

\* the second failure in a row of a run that synchronized successfully
\* before, on a clock that is initialized
C3_Witness ==
  /\ SyncNotOk
  /\ tr.fails >= 1
  /\ tr.syncBefore.initialized
  /\ tr.syncBefore.lastSyncEpoch > 0
  /\ tr.syncAfter = tr.syncBefore

\* C4 as stated: a tick that sees fewer than 1000 ms elapsed changes no
\* WallClock field, whatever the drift correction is.
C4_SubSecondTickChangesNothing ==
  ElapsedBelowSecond => tr.tickAfter = tr.pre

\* the drift correction owes less than one millisecond for the elapsed time
\* of the tick: it is zero or positive, or negative with
\* |drift| * elapsed < 3600000, as it is for every drift down to -3600 ms/h
MildDrift ==
  \/ tr.pre.driftCorrectionMsPerHour >= 0
  \/ tr.tick.elapsedMs[2] = 0
  \/ tr.pre.driftCorrectionMsPerHour >= -(3599999 \div tr.tick.elapsedMs[2])

\* C4 amended: a tick that sees fewer than 1000 ms elapsed changes no
\* WallClock field when the drift correction is zero, positive, or negative
\* with |drift| * elapsed below 3600000 (so for every drift down to
\* -3600 ms per hour).
C4_SubSecondTickMildDrift ==
  (ElapsedBelowSecond /\ MildDrift) => tr.tickAfter = tr.pre

\* a tick 999 ms after the mark, under a negative drift correction that
\* owes less than a millisecond, that changed nothing
C4_Witness ==
  /\ ElapsedBelowSecond
  /\ tr.tick.elapsedMs[2] = 999
  /\ tr.pre.driftCorrectionMsPerHour < 0
  /\ MildDrift
  /\ tr.tickAfter = tr.pre

\* C5: when millis() has wrapped since lastSecondUpdate, the elapsed time
\* the tick computes is the true elapsed time modulo 2^32, and the seconds it
\* adds are those the true elapsed time gives.
C5_RolloverElapsedIsExact ==
  (TickRan /\ tr.tick.rolled)
    => /\ TimeOf(tr.tick.elapsedMs) = tr.since
       /\ tr.tick.added =
            SecondsFor(CorrectedElapsedMs(U32OfTime(tr.since),
                                          tr.pre.driftCorrectionMsPerHour,
                                          tr.pre.lastSyncEpoch))

\* a tick shortly after the wrap that added seconds
C5_Witness ==
  /\ TickRan
  /\ tr.tick.rolled
  /\ tr.tick.elapsedMs[1] = 0
  /\ tr.tick.added > 0
  /\ TimeOf(tr.tick.elapsedMs) = tr.since

\* C6: a tick in which no synchronize() succeeds leaves the time of day
\* advanced by the whole seconds it computed, which are never negative
\* (modulo 86400, so only a passage of midnight lowers it), and an operation
\* in which no synchronize() succeeds moves the time of day in no other way.
C6_TickNeverMovesBack ==
  /\ (tr.tick.called /\ ~TickSyncOk)
       => /\ tr.tick.added >= 0
          /\ tr.tick.added = SecondsFor(tr.tick.corrected)
          /\ TimeOfDay(tr.tickAfter) =
               (TimeOfDay(tr.pre) + tr.tick.added) % SecondsPerDay
  /\ (~TickSyncOk /\ ~SyncOk)
       => TimeOfDay(NowClock) =
            (TimeOfDay(tr.pre) + tr.tick.added) % SecondsPerDay

\* a tick that added more than an hour of seconds without passing midnight
C6_Witness ==
  /\ TickRan
  /\ ~tr.tick.sync.called
  /\ tr.tick.added >= 3600
  /\ TimeOfDay(tr.tickAfter) = TimeOfDay(tr.pre) + tr.tick.added

\* C7: a tick whose carry passes midnight calls synchronize() before it
\* returns, with hour already 0; when that call fails hour is still 0 after
\* it and the tick completes its carry.
C7_MidnightResync ==
  CrossesMidnight
    => /\ tr.tick.calls >= 1
       /\ tr.tick.sync.called
       /\ tr.tickAt.hour = 0
       /\ TickSyncFailed
            => /\ tr.tickSyncAfter.hour = 0
               /\ tr.tickAfter.second < 60
               /\ TimeOfDay(tr.tickAfter) =
                    (TimeOfDay(tr.pre) + tr.tick.added) % SecondsPerDay

\* a tick that passed midnight, had its resync fail and returned in hour 0
C7_Witness ==
  /\ CrossesMidnight
  /\ TickSyncFailed
  /\ tr.pre.hour = 23
  /\ tr.tickAfter.hour = 0

\* C8: a tick in which no synchronize() succeeds leaves dayOfMonth, month,
\* year and weekday as they were; an operation in which no synchronize()
\* succeeds leaves them as they were; a successful synchronize() sets the
\* four of them from the one instant it decomposes.
C8_TickKeepsDate ==
  /\ (tr.tick.called /\ ~TickSyncOk) => DateOf(tr.tickAfter) = DateOf(tr.pre)
  /\ (~TickSyncOk /\ ~SyncOk) => DateOf(NowClock) = DateOf(tr.pre)
  /\ SyncOk
       => DateOf(NowClock) =
            DateOfInstant(LocalTime(tr.sync.utcTime, tr.sync.tz)
                          + DstAdjust(tr.sync.utcTime, tr.sync.tz))

\* a tick that passed midnight without a successful resync, on a clock whose
\* date a synchronisation had set
C8_Witness ==
  /\ CrossesMidnight
  /\ TickSyncFailed
  /\ tr.pre.lastSyncEpoch > 0
  /\ DateOf(tr.tickAfter) = DateOf(tr.pre)
  /\ DateOf(tr.pre) # <<1, 1, 2025, 1>>

\* C9: the loop iteration with connectivity that follows a tick which
\* detected a rollover calls synchronize().
C9_RolloverForcesSync ==
  (tr.op = "online" /\ tr.pending) => tr.sync.called

\* C10: after a successful synchronize() the fields are the decomposition of
\* the UTC reading plus utcOffsetHours * 3600 (plus 3600 under DST),
\* initialized is true, lastSyncEpoch is the reading and lastSyncMonotonic
\* the millis() of the synchronisation.
C10_SyncStoresLocalInstant ==
  SyncOk
    => LET ti == Gmtime(tr.sync.utcTime + tr.sync.tz * 900
                        + DstAdjust(tr.sync.utcTime, tr.sync.tz))
       IN  /\ hours = ti.tm_hour
           /\ minutes = ti.tm_min
           /\ seconds = ti.tm_sec
           /\ DateOf(NowClock) =
                <<ti.tm_mday, ti.tm_mon + 1, ti.tm_year + 1900, ti.tm_wday>>
           /\ timeInitialized
           /\ lastNtpTimestamp = tr.sync.utcTime
           /\ lastNtpMillis = tr.sync.end

\* C11: the first synchronize() of an uninitialized clock that receives the
\* UTC epoch 2024-03-10T07:00:00Z (1710054000) under the offset -5 stores
\* 2024-03-10 03:00 local time.  The reading the code decomposes is the
\* epoch received or, after the alignment to the next second, the one that
\* follows it; the second stored is the second of that reading.
C11_MarchTenthSync ==
  ( /\ SyncOk
    /\ ~tr.syncBefore.initialized
    /\ tr.sync.tz = -20
    /\ tr.sync.utcTime \in {1710054000, 1710054001} )
    => /\ hours = 3
       /\ minutes = 0
       /\ seconds = tr.sync.utcTime % 60
       /\ dayOfMonth = 10
       /\ month = 3
       /\ year = 2024

\* the rule was evaluated on a date of month mon
DstProbed(mon) == probe.fn = "dst" /\ probe.timeinfo.tm_mon + 1 = mon

\* the first Sunday on or after day k of the month of a date whose day of the
\* month is d and whose weekday is w
SundayOnOrAfter(k, d, w) == k + ((7 - ((w + 35 - (d - k)) % 7)) % 7)

\* C12: for a date in March, shouldApplyDST is true exactly when the day of
\* the month is on or after the second Sunday of March, the first Sunday on
\* or after the 8th.
C12_MarchFlipsOnSecondSunday ==
  DstProbed(3)
    => (probe.result <=>
          probe.timeinfo.tm_mday >=
            SundayOnOrAfter(8, probe.timeinfo.tm_mday, probe.timeinfo.tm_wday))

\* C13: for a date in November, shouldApplyDST is true exactly when the day
\* of the month is before the first Sunday of November, the first Sunday on
\* or after the 1st.
C13_NovemberFlipsOnFirstSunday ==
  DstProbed(11)
    => (probe.result <=>
          probe.timeinfo.tm_mday <
            SundayOnOrAfter(1, probe.timeinfo.tm_mday, probe.timeinfo.tm_wday))

\* C14: shouldApplyDST is true for every date of April to October and false
\* for every date of January, February and December, whatever the day and
\* the weekday; evaluating it leaves the clock as it was.
C14_SummerAndWinterMonths ==
  probe.fn = "dst"
    => /\ (probe.timeinfo.tm_mon + 1 \in 4..10) => probe.result
       /\ (probe.timeinfo.tm_mon + 1 \in {1, 2, 12}) => ~probe.result
       /\ steps = 0 /\ ~timeInitialized /\ hours = 0 /\ dayOfMonth = 1

\* the rule evaluated on the first and on the last day of its summer months
C14_Witness ==
  /\ probe.fn = "dst"
  /\ probe.result
  /\ \/ probe.timeinfo.tm_mon + 1 = 4 /\ probe.timeinfo.tm_mday = 1
     \/ probe.timeinfo.tm_mon + 1 = 10 /\ probe.timeinfo.tm_mday = 31

\* the hour, the minute and the date a WallClock shows
HourMinuteDate(w) == <<w.hour, w.minute, DateOf(w)>>

\* the hour, the minute and the date of the instant t
HourMinuteDateOf(t) ==
  <<Gmtime(t).tm_hour, Gmtime(t).tm_min, DateOfInstant(t)>>

\* the adjustment the rule asks for at the reading utcTime in the zone tz
DstDue(utcTime, tz) ==
  IF shouldApplyDST(Gmtime(utcTime)) /\ useDST /\ tz < 0 THEN 3600 ELSE 0

EpochElapsed(w, y) == y.utcTime - w.lastSyncEpoch

\* the drift sample of the call y made on the WallClock w: the monotonic
\* milliseconds since the previous synchronisation less the epoch seconds
\* times 1000, per hour of epoch time
DriftSample(w, y) ==
  DriftPerHour(ToLong(U32Sub(U32Sub(y.end, w.lastSyncMonotonic),
                             U32MulK(ToU32(EpochElapsed(w, y)), 1000))),
               ToU32(EpochElapsed(w, y)))

\* the estimate a successful call y on the WallClock w is to leave when the
\* drift is estimated from limit seconds of epoch time on
DriftDue(w, y, limit) ==
  IF w.lastSyncEpoch > 0 /\ EpochElapsed(w, y) >= limit
  THEN TruncDiv(3 * DriftSample(w, y) + w.driftCorrectionMsPerHour, 4)
  ELSE w.driftCorrectionMsPerHour

\* C16: a successful synchronize() replaces driftCorrectionMsPerHour by
\* (3 * sample + old) / 4 exactly when a previous synchronisation exists and
\* 300 seconds of epoch time or more have elapsed since it, and leaves it
\* unchanged otherwise.
C16_DriftBlendedFrom300 ==
  /\ SyncOk
       => tr.syncAfter.driftCorrectionMsPerHour =
            DriftDue(tr.syncBefore, tr.sync, 300)
  /\ TickSyncOk
       => tr.tickSyncAfter.driftCorrectionMsPerHour =
            DriftDue(tr.tickAt, tr.tick.sync, 300)

Max(a, b) == IF a > b THEN a ELSE b

\* the estimate the blend left lies between the old estimate and the sample
BlendBetween ==
  /\ Min(probe.old, probe.sample) <= probe.new
  /\ probe.new <= Max(probe.old, probe.sample)

\* SettleSyncs or more samples, all of them the same rate, have been blended
BlendSettled == probe.steady /\ probe.n >= SettleSyncs

\* C17 as stated: every new estimate lies between the old estimate and the
\* sample, and under samples that all equal one rate the estimate comes to
\* equal that rate.
C17_BlendConverges ==
  probe.fn = "blend"
    => /\ BlendBetween
       /\ BlendSettled => probe.new = probe.sample

\* C17 amended: every new estimate lies between the old estimate and the
\* sample, and under samples that all equal one rate the estimate comes
\* within 1 of that rate; the integer division can hold it one short of the
\* rate for ever.
C17_BlendSettlesWithinOne ==
  probe.fn = "blend"
    => /\ BlendBetween
       /\ BlendSettled => probe.new - probe.sample \in {-1, 0, 1}

\* constant samples have left the estimate one short of the rate, and a
\* further sample does not move it
C17_Witness ==
  /\ probe.fn = "blend"
  /\ BlendSettled
  /\ probe.new = probe.old
  /\ probe.new # probe.sample
  /\ BlendBetween

\* C18: initialized is false at boot and in every state in which no
\* synchronize() has succeeded yet; an operation turns it from false to true
\* only with a synchronize() that succeeds; a tick in which no synchronize()
\* succeeds and a synchronize() that fails leave it as it was.
C18_InitializedOnlyBySync ==
  /\ steps = 0 => ~timeInitialized
  /\ timeInitialized => lastNtpTimestamp > 0
  /\ (~tr.pre.initialized /\ timeInitialized) => (SyncOk \/ TickSyncOk)
  /\ (tr.tick.called /\ ~TickSyncOk)
       => tr.tickAfter.initialized = tr.pre.initialized
  /\ SyncNotOk => tr.syncAfter.initialized = tr.syncBefore.initialized

\* the first synchronisation that succeeds, after one that failed, turns
\* initialized from false to true
C18_Witness ==
  /\ ~tr.pre.initialized
  /\ tr.pre.lastSyncEpoch = 0
  /\ tr.fails >= 1
  /\ tr.tick.called
  /\ SyncOk
  /\ timeInitialized

\* the civil fields of a WallClock
CivilFields(w) == <<w.hour, w.minute, w.second, DateOf(w)>>

\* the settings handler called resetTimeWithNewTimezone()
ResetCalled == tr.op = "save" /\ tr.sync.called

\* C19: resetForNewTimezone clears initialized and, with connectivity, calls
\* synchronize() under the new offset before it returns; when that call
\* succeeds initialized is true again and the hour, the minute and the date
\* are those of the fresh reading moved by the new offset (and the DST
\* adjustment); when it finds no connectivity or fails, initialized stays
\* false and the civil fields are those from before the reset.
C19_ResetForNewTimezone ==
  ResetCalled
    => /\ ~tr.syncBefore.initialized
       /\ tr.sync.tz = timezone
       /\ SyncOk
            => /\ timeInitialized
               /\ tr.sync.utcTime = utc
               /\ HourMinuteDate(NowClock) =
                    HourMinuteDateOf(LocalTime(utc, timezone)
                                     + DstAdjust(utc, timezone))
       /\ SyncNotOk
            => /\ ~timeInitialized
               /\ CivilFields(NowClock) = CivilFields(tr.pre)

\* a reset of an initialized clock to the offset +5:30 whose synchronize()
\* succeeded and changed the fields shown
C19_Witness ==
  /\ ResetCalled
  /\ SyncOk
  /\ tr.pre.initialized
  /\ timezone = 22
  /\ timeInitialized
  /\ HourMinuteDate(NowClock) # HourMinuteDate(tr.pre)

\* the operation began in PendingResync and called tick(), and no
\* synchronize() succeeded inside that tick
PendingTick == tr.forced /\ tr.tick.called /\ ~TickSyncOk

\* C20 as stated: after a forced resync has failed and until a synchronize()
\* succeeds, no tick() changes the hour, the minute or the second.
C20_FrozenUntilResync ==
  PendingTick => TimeOfDay(tr.tickAfter) = TimeOfDay(tr.pre)

\* C20 amended: after a forced resync has failed and until a synchronize()
\* succeeds, a tick() changes no field when initialized is false (the resync
\* of a configuration change), and when initialized is true (the resync of a
\* midnight crossover) it goes on advancing hour, minute and second by the
\* seconds it computes and leaves the date as it was; while initialized is
\* false only a synchronize() that succeeds changes the civil fields.
C20_FrozenOnlyWhenUninitialized ==
  /\ PendingTick
       => IF tr.pre.initialized
          THEN /\ TimeOfDay(tr.tickAfter) =
                    (TimeOfDay(tr.pre) + tr.tick.added) % SecondsPerDay
               /\ DateOf(tr.tickAfter) = DateOf(tr.pre)
               /\ tr.tickAfter.initialized
          ELSE tr.tickAfter = tr.pre
  /\ (tr.forced /\ ~tr.pre.initialized /\ ~SyncOk)
       => /\ CivilFields(NowClock) = CivilFields(tr.pre)
          /\ ~timeInitialized

\* a tick a second or more after the resync of a configuration change
\* failed on a clock that had been synchronized: nothing moved
C20_Witness ==
  /\ PendingTick
  /\ ~tr.pre.initialized
  /\ tr.pre.lastSyncEpoch > 0
  /\ TimeOf(tr.d).sec >= 1
  /\ tr.tickAfter = tr.pre

\* the trouble has just ended and the engine is not in Tracking: the clock
\* is not initialized, or a forced resync has failed, or a rollover awaits
\* its resync
NeedsSync == ~timeInitialized \/ hist.forced \/ hist.rollPending

\* the scheduler's own synchronize() succeeded and the clock is initialized
SchedulerSynced ==
  /\ tr.op = "online"
  /\ SyncOk
  /\ timeInitialized
  /\ ~NeedsSync

\* C21: once the loop keeps running connected and the time source answers
\* every attempt, the scheduler makes a synchronize() attempt and the engine
\* reaches Tracking, whatever state the failures had left: by the second
\* iteration that comes a periodic interval or more after the one before it,
\* the scheduler's synchronize() has succeeded and initialized is true.
C21_EventuallyTracking ==
  /\ steps >= TroubleSteps + 2 => SchedulerSynced
  /\ (steps > TroubleSteps /\ tr.sync.called) => SchedulerSynced

\* the scheduler's synchronize() succeeded on a clock that the failures
\* before it had left uninitialized
C21_Witness ==
  /\ steps >= TroubleSteps + 2
  /\ ~tr.pre.initialized
  /\ tr.fails >= 1
  /\ SchedulerSynced

\* polls of 10 ms that make up the second the wait may last
PollCap == MsPerSecond \div PollMs

\* C22: the alignment wait of synchronize() ends after a bounded number of
\* polls, about one second of waiting, whatever the time source returns.
C22_AlignmentBounded ==
  probe.fn = "align" => probe.polls <= PollCap

\* the clock that the calls of updateCurrentTime() and updateTimeAndDate()
\* made by the last operation left
LeftByCalls ==
  IF tr.sync.called THEN tr.syncAfter
  ELSE IF tr.tick.called THEN tr.tickAfter
  ELSE tr.pre

\* C23: the fields of the clock are written only inside synchronize() and
\* tick(): after setup(), after an iteration of loop() and after the
\* settings handler the clock is the one the calls they made left.
C23_WrittenOnlyBySyncAndTick ==
  tr.op \in {"setup", "online", "offline", "save"} => NowClock = LeftByCalls

\* the drift correction has been evaluated on its own
CorrectionProbed == probe.fn = "correction"

\* C24: in tick() the drift-corrected elapsed time is never negative: when
\* the correction exceeds the elapsed time it is clamped to 0, and tick()
\* then adds no seconds and leaves the clock as it was; it never subtracts.
C24_CorrectedNeverNegative ==
  CorrectionProbed =>
    /\ probe.corrected >= 0
    /\ probe.tick.corrected = probe.corrected
    /\ probe.tick.added >= 0
    /\ probe.tick.added = probe.corrected \div MsPerSecond
    /\ probe.correction > probe.elapsedMs =>
         /\ probe.corrected = 0
         /\ probe.tick.added = 0
         /\ probe.after = probe.before

C24_Witness ==
  /\ CorrectionProbed
  /\ probe.elapsedMs >= MsPerSecond
  /\ probe.correction > probe.elapsedMs
  /\ probe.corrected = 0
  /\ probe.after = probe.before

\* the last operation called updateCurrentTime() and nothing else, the call
\* added seconds and made no call of updateTimeAndDate(): millis() is still
\* the one the call read
TickAdvancedAlone ==
  /\ TickRan /\ tr.tick.added >= 1
  /\ ~tr.tick.sync.called /\ ~tr.sync.called

\* the milliseconds the tick did not count as seconds
TickRemainder == tr.tick.corrected % MsPerSecond

\* C25: after a tick() that advances the clock without a nested sync,
\* lastTickMark is current - (correctedElapsed mod 1000) in 32-bit modular
\* arithmetic: the mark is less than 1000 ms before the current count, also
\* when the current count is smaller than the remainder.
C25_MarkCarriesRemainder ==
  TickAdvancedAlone =>
    /\ lastSecondUpdate = U32Sub(now, ToU32(TickRemainder))
    /\ U32Sub(now, lastSecondUpdate) = ToU32(TickRemainder)
    /\ U32Lt(U32Sub(now, lastSecondUpdate), ToU32(MsPerSecond))

C25_Witness ==
  /\ TickAdvancedAlone
  /\ TickRemainder > 0
  /\ U32Lt(now, ToU32(TickRemainder))
  /\ U32Lt(now, lastSecondUpdate)

\* what C26 states of a successful call that reported y and left the clock w
AlignedAsStated(y, w) ==
  /\ y.precise <=> y.second < PreciseSyncLimit
  /\ w.lastTickMark = y.end
  /\ ~y.precise => y.polls = 0 /\ y.utcTime % 60 = y.second
  /\ y.precise =>
       /\ y.polls >= 1
       /\ y.polls <= MsPerSecond \div PollMs
       /\ y.utcTime % 60 = y.second + 1
       /\ w.second = y.second + 1

\* C26: a successful synchronize() skips the alignment exactly when the
\* source's second is 58 or 59, and then lastTickMark is the monotonic count
\* at the end of the sync; otherwise it waits until the source's second
\* differs from the one first read, lastTickMark is the count at that change
\* and the stored second is the source's second after the change.
C26_AlignmentUnlessMinuteEnds ==
  /\ SyncOk => AlignedAsStated(tr.sync, tr.syncAfter)
  /\ TickSyncOk => AlignedAsStated(tr.tick.sync, tr.tickSyncAfter)

C26_Witness ==
  /\ SyncOk /\ tr.sync.precise /\ tr.sync.second = PreciseSyncLimit - 1
  /\ tr.sync.polls >= 1
  /\ tr.syncAfter.second = PreciseSyncLimit
  /\ tr.syncAfter.lastTickMark = tr.sync.end

\* millis() when the iteration of loop() that is being taken tests its
\* periodic update: the time of the iteration, or the end of the last
\* updateTimeAndDate() that updateCurrentTime() called
IterationTime ==
  IF tr'.tick.sync.called THEN tr'.tick.sync.end ELSE U32Add(now, tr'.d)

\* ten minutes or more, modulo 2^32, lie between the scheduler's mark and t
TenMinutesSince(mark, t) == ~U32Lt(U32Sub(t, mark), ToU32(NtpInterval))

\* C27: an iteration of loop() with connectivity calls tick(), and calls
\* synchronize() exactly when 10 minutes or more (mod 2^32) have elapsed
\* since the scheduler's mark; the mark becomes the current time after an
\* attempt, successful or not, and is left alone otherwise; an iteration
\* without connectivity calls neither.
C27_SyncEveryTenMinutes ==
  [][/\ tr'.op = "online" =>
          /\ tr'.tick.called
          /\ tr'.sync.called
               <=> TenMinutesSince(loopLastTimeUpdate, IterationTime)
          /\ loopLastTimeUpdate' = IF tr'.sync.called THEN now'
                                   ELSE loopLastTimeUpdate
     /\ tr'.op = "offline" =>
          /\ ~tr'.tick.called /\ ~tr'.sync.called
          /\ loopLastTimeUpdate' = loopLastTimeUpdate]_vars

\* C28: while initialized is false tick() returns at once: whatever the
\* elapsed time, it leaves hour, minute, second, lastTickMark and every other
\* field of the clock as they were, does not touch the resync trigger
\* (the global lastTimeUpdate) and calls no synchronize().
C28_UninitializedTickIsNoOp ==
  [][(tr'.tick.called /\ ~timeInitialized) =>
       /\ ~tr'.tick.ran
       /\ ~tr'.tick.rolled
       /\ tr'.tick.added = 0
       /\ tr'.tick.calls = 0
       /\ ~tr'.tick.sync.called
       /\ tr'.tickAfter = NowClock
       /\ ~tr'.sync.called => /\ NowClock' = NowClock
                              /\ lastTimeUpdate' = lastTimeUpdate]_vars

\* an uninitialized clock has been ticked after millis() wrapped past its
\* tick mark and past the millis() of its last sync
C28_Witness ==
  /\ tr.op = "online" /\ tr.tick.called /\ ~tr.sync.called
  /\ ~tr.pre.initialized /\ ~timeInitialized
  /\ U32Lt(now, lastSecondUpdate)
  /\ U32Lt(now, lastNtpMillis)

\* C29: when the synchronize() that tick() calls at midnight succeeds, the
\* clock after tick() returns is the one that synchronize() stored: hour,
\* minute, second and lastTickMark are its values, the seconds not yet
\* carried are discarded.
C29_MidnightSyncWins ==
  TickSyncOk =>
    /\ tr.tickAfter = tr.tickSyncAfter
    /\ tr.tickAfter.lastTickMark = tr.tick.sync.end
    /\ tr.tickAfter.lastSyncEpoch = tr.tick.sync.utcTime
    /\ tr.tickAfter.second < 60

\* such a tick that still had a minute or more to carry when it called
C29_Witness ==
  /\ TickSyncOk
  /\ tr.tickAt.hour = 0 /\ tr.tickAt.minute = 0
  /\ tr.tickAt.second >= 60
  /\ tr.tickAfter.second # tr.tickAt.second % 60

Magnitude(n) == IF n < 0 THEN -n ELSE n

\* |drift| * elapsedMs is below limit (limit below 2^31)
ProductBelow(drift, elapsedMs, limit) ==
  elapsedMs = 0 \/ Magnitude(drift) <= (limit - 1) \div elapsedMs

\* driftCorrection * elapsedMs / 3600000 truncated toward zero, where the
\* product is below 2^31
ExactCorrection(drift, elapsedMs) == TruncDiv(drift * elapsedMs, 3600000)

\* two calls have been evaluated next to the same calls without drift
TicksProbed == probe.fn = "ticks"

\* hour, minute, second and tick mark of a clock
Advance(w) == <<w.hour, w.minute, w.second, w.lastTickMark>>

====
